---- MODULE Spec2Model ----
(***************************************************************************)
(* The RampenSau tool adapter: a registry of six tools, each with a        *)
(* parameter schema and a handler that calls the colour engine and wraps   *)
(* the result in a text envelope.                                          *)
(*                                                                         *)
(* Two revisions of the registry are modelled:                             *)
(*   "main"  src/src/rampensau-mcp-spec.js (the file index.js imports)     *)
(*   "alt"   src/unnamed/part_000          (accent aliases, palettes)      *)
(*                                                                         *)
(* Numbers are fixed point: the JavaScript number x is the integer         *)
(* x * Unit, so 0.5 is Unit \div 2 and 3.5 is not a multiple of Unit.      *)
(*                                                                         *)
(* The dispatcher (generic-spec-server.js) is not part of the sources; it  *)
(* is modelled from the design document: look the tool up, validate the    *)
(* raw arguments with z.object(parameters) as the handlers themselves      *)
(* build it, run execute on the parsed arguments, return its envelope.     *)
(* Schemas follow zod 3: an object schema drops undeclared keys, and       *)
(* .optional() answers undefined before an inner .default() is reached.    *)
(*                                                                         *)
(* Spec serves one request at a time; SpecOverlapped lets the steps of     *)
(* several dispatches interleave over the same registry.                   *)
(***************************************************************************)
EXTENDS Integers, Sequences, FiniteSets, TLC

VARIABLES
  variant,   \* which revision of the registry is loaded
  pc,        \* "idle": waiting for a request; "done": a response is ready
  tool,      \* tool name of the request being answered
  raw,       \* its raw arguments: supplied field name -> value
  engine,    \* what the colour engine answered (Absent when it was not asked)
  calls,     \* the engine calls the request made, in order
  res,       \* the outcome: status, handler result, envelope, error
  registry,  \* the tool registry: what a lookup reads
  inflight   \* the dispatches under way at once: slot -> its progress

vars == <<variant, pc, tool, raw, engine, calls, res, registry, inflight>>

Unit == 100 * 100

(* ------------------------------ bounds --------------------------------- *)
MaxSupplied == 2      \* fields a caller supplies in one request
MaxRamp     == 2      \* length of a ramp the engine answers with
MaxPalette  == 2      \* length of a colour list given to toCSS
MaxArgs     == 3      \* positional arguments given to utils
MaxInFlight == 2      \* dispatches under way at the same time

(* --------------------------- JavaScript values ------------------------- *)
(* k: "absent" (undefined / key missing), "num", "str", "arr", "obj"       *)
Absent   == [k |-> "absent", n |-> 0, s |-> "", a |-> <<>>]
Num(n)   == [k |-> "num",    n |-> n, s |-> "", a |-> <<>>]
Str(s)   == [k |-> "str",    n |-> 0, s |-> s,  a |-> <<>>]
Arr(a)   == [k |-> "arr",    n |-> 0, s |-> "", a |-> a]
EmptyObj == [k |-> "obj",    n |-> 0, s |-> "", a |-> <<>>]
N(i)     == Num(i * Unit)

\* JavaScript truthiness, as used by `curveMethod ? ... : ...`
Truthy(v) ==
  CASE v.k = "absent" -> FALSE
    [] v.k = "num"    -> v.n # 0
    [] v.k = "str"    -> v.s # ""
    [] OTHER          -> TRUE

Get(obj, f) == IF f \in DOMAIN obj THEN obj[f] ELSE Absent

NoOpts == [f \in {} |-> Absent]

(* ------------------------- zod parse primitives ------------------------ *)
Ok(v)      == [ok |-> TRUE,  v |-> v,      code |-> ""]
Fail(code) == [ok |-> FALSE, v |-> Absent, code |-> code]

NoBound == -1

\* z.number() [.int()] [.min(lo)] [.max(hi)]; lo, hi in whole units
zNumber(v, isInt, lo, hi) ==
  CASE v.k = "absent"                        -> Fail("required")
    [] v.k # "num"                           -> Fail("invalid_type")
    [] isInt /\ v.n % Unit # 0               -> Fail("invalid_type")
    [] lo # NoBound /\ v.n < lo * Unit       -> Fail("too_small")
    [] hi # NoBound /\ v.n > hi * Unit       -> Fail("too_big")
    [] OTHER                                 -> Ok(v)

\* z.enum([...])
zEnum(v, values) ==
  CASE v.k = "absent"  -> Fail("required")
    [] v.k # "str"     -> Fail("invalid_type")
    [] v.s \notin values -> Fail("invalid_enum_value")
    [] OTHER           -> Ok(v)

\* schema.optional(): undefined passes through without reaching the inner
\* schema; inner is the inner schema's result for v
zOptional(v, inner) == IF v.k = "absent" THEN Ok(Absent) ELSE inner

\* schema.default(d): undefined is replaced by d before the inner schema runs
zDefault(d, v) == IF v.k = "absent" THEN d ELSE v

\* an element result h in front of the result t of the elements after it:
\* the first failure wins
zCons(h, t) ==
  CASE ~h.ok -> h
    [] ~t.ok -> t
    [] OTHER -> Ok(Arr(<<h.v>> \o t.v.a))

(* ------------------------------ helpers -------------------------------- *)
\* the digits of a fraction d of `width` decimal places, trailing zeros cut
RECURSIVE FracText(_, _)
FracText(d, width) ==
  CASE d % 10 = 0                  -> FracText(d \div 10, width - 1)
    [] width - Len(ToString(d)) = 3 -> "000" \o ToString(d)
    [] width - Len(ToString(d)) = 2 -> "00" \o ToString(d)
    [] width - Len(ToString(d)) = 1 -> "0" \o ToString(d)
    [] OTHER                        -> ToString(d)

\* the decimal text of a number, as JSON.stringify prints it
RECURSIVE NumText(_)
NumText(n) ==
  CASE n < 0        -> "-" \o NumText(0 - n)
    [] n % Unit = 0 -> ToString(n \div Unit)
    [] OTHER        -> ToString(n \div Unit) \o "." \o FracText(n % Unit, 4)

\* JSON.stringify(v, null, 2) below the top level; ind is the indentation
RECURSIVE JSONText(_, _)
RECURSIVE JSONItems(_, _, _)
JSONItems(a, i, ind) ==
  IF i = Len(a) THEN ind \o JSONText(a[i], ind)
  ELSE ind \o JSONText(a[i], ind) \o ",\n" \o JSONItems(a, i + 1, ind)

JSONText(v, ind) ==
  CASE v.k = "num"    -> NumText(v.n)
    [] v.k = "str"    -> "\"" \o v.s \o "\""
    [] v.k = "absent" -> "null"
    [] v.k = "obj"    -> "{}"
    [] OTHER          -> IF v.a = <<>> THEN "[]"
                         ELSE "[\n" \o JSONItems(v.a, 1, ind \o "  ")
                                   \o "\n" \o ind \o "]"

\* JSON.stringify(data, null, 2): undefined has no JSON text
JSONstringify(data) ==
  IF data.k = "absent" THEN Absent ELSE Str(JSONText(data, ""))

\* an envelope that serializes strings as well
asResult_always(data) ==
  [content |-> << [type |-> "text", text |-> JSONstringify(data)] >>]

\* const asResult = (data) => ({ content: [{ type: 'text', text: ... }] })
asResult(data) ==
  [content |-> << [type |-> "text",
                   text |-> IF data.k = "str" THEN data
                            ELSE JSONstringify(data)] >>]

NoEnvelope == [content |-> <<>>]
NoErr      == [class |-> "", code |-> "", field |-> ""]

Call(fn, opts, pos) == [fn |-> fn, opts |-> opts, pos |-> pos]

(* --------------------------- value normalizer -------------------------- *)
\* a normalizer that also divides 1 itself by 100
norm01_geq(v) ==
  CASE v.k = "absent"                      -> Fail("required")
    [] v.k # "num"                         -> Fail("invalid_type")
    [] ~(v.n >= 0 /\ v.n <= 100 * Unit)    -> Fail("custom")
    [] OTHER -> Ok(Num(IF v.n >= Unit THEN v.n \div 100 ELSE v.n))

\* z.number().refine(v => v >= 0 && v <= 100).transform(v => v > 1 ? v/100 : v)
norm01(v) ==
  CASE v.k = "absent"                      -> Fail("required")
    [] v.k # "num"                         -> Fail("invalid_type")
    [] ~(v.n >= 0 /\ v.n <= 100 * Unit)    -> Fail("custom")
    [] OTHER -> Ok(Num(IF v.n > Unit THEN v.n \div 100 ELSE v.n))

\* a hue schema whose upper bound is too wide
Hue_wide(v) == zNumber(v, FALSE, 0, 400)

\* z.number().min(0).max(360): every hue parameter
Hue(v) == zNumber(v, FALSE, 0, 360)

\* the element schemas of the arrays and tuples that are declared
RECURSIVE zElement(_, _)

\* element-wise parse of an array body
RECURSIVE zElems(_, _, _)
zElems(kind, a, i) ==
  IF i > Len(a) THEN Ok(Arr(<<>>))
  ELSE zCons(zElement(kind, a[i]), zElems(kind, a, i + 1))

\* z.array(element) [.length(len)]
zArray(kind, v, len) ==
  CASE v.k = "absent"                      -> Fail("required")
    [] v.k # "arr"                         -> Fail("invalid_type")
    [] len # NoBound /\ Len(v.a) < len     -> Fail("too_small")
    [] len # NoBound /\ Len(v.a) > len     -> Fail("too_big")
    [] OTHER                               -> zElems(kind, v.a, 1)

\* const Color3 = z.array(z.number()).length(3)
Color3(v) == zArray("number", v, 3)

zElement(kind, v) ==
  CASE kind = "norm01" -> norm01(v)
    [] kind = "hue"    -> Hue(v)
    [] kind = "number" -> zNumber(v, FALSE, NoBound, NoBound)
    [] kind = "Color3" -> Color3(v)
    [] OTHER           -> Ok(v)                  \* z.any()

\* z.tuple([norm01, norm01])
RangeTuple(v) ==
  CASE v.k = "absent"   -> Fail("required")
    [] v.k # "arr"      -> Fail("invalid_type")
    [] Len(v.a) < 2     -> Fail("too_small")
    [] Len(v.a) > 2     -> Fail("too_big")
    [] OTHER            -> zElems("norm01", v.a, 1)

(* ------------------------- parameter schemas --------------------------- *)
Variants == {"main", "alt"}

\* a registry with a seventh tool, registered under the name Generate
ToolNames_seven ==
  {"generate", "uniqueRandomHues", "colorHarmony", "toCSS", "harveyHue", "utils",
   "Generate"}

ToolNames ==
  {"generate", "toCSS", "colorHarmony", "uniqueRandomHues", "harveyHue", "utils"}

\* an alias table in which sine needs two steps to reach arc
ACCENT_ALIASES_chain ==
  [a \in {"lamé", "lame", "arc", "linear", "sine", "easeInOut",
          "pow", "power", "powx", "powX", "powy", "powY"} |->
     CASE a \in {"lamé", "lame"}               -> "lamé"
       [] a = "sine"                           -> "linear"
       [] a \in {"arc", "linear", "easeInOut"} -> "arc"
       [] a \in {"pow", "power"}               -> "pow"
       [] a \in {"powx", "powX"}               -> "powX"
       [] OTHER                                -> "powY"]

\* real RampenSau accents + user-friendly aliases (alt revision)
ACCENT_ALIASES ==
  [a \in {"lamé", "lame", "arc", "linear", "sine", "easeInOut",
          "pow", "power", "powx", "powX", "powy", "powY"} |->
     CASE a \in {"lamé", "lame"}                       -> "lamé"
       [] a \in {"arc", "linear", "sine", "easeInOut"} -> "arc"
       [] a \in {"pow", "power"}                       -> "pow"
       [] a \in {"powx", "powX"}                       -> "powX"
       [] OTHER                                        -> "powY"]

HarmonyMethods ==
  {"complementary", "splitComplementary", "triadic", "tetradic",
   "monochromatic", "doubleComplementary", "compound", "analogous"}

UtilityNames == {"shuffle", "lerp", "scaleSpread", "curvePoint", "curveEasings"}

ModeNames ==
  {"hsl", "hsv", "lch", "oklch", "css", "css-hsl", "css-hsv", "css-lch", "css-oklch"}

\* z.enum(['array','css-hsl','css-oklch','css']).default('array')
\*   .transform(f => f === 'css' ? 'css-hsl' : f)
\* a transform that forgets the css alias
formatTransform_none(p) == p

formatTransform(p) ==
  IF ~p.ok THEN p ELSE Ok(IF p.v.s = "css" THEN Str("css-hsl") ELSE p.v)

Format(v) ==
  formatTransform(
    zEnum(zDefault(Str("array"), v), {"array", "css-hsl", "css-oklch", "css"}))

\* a mode transform that forgets the css alias
modeTransform_noCss(m) ==
  CASE m = "css-hsl"   -> "hsl"
    [] m = "css-hsv"   -> "hsv"
    [] m = "css-lch"   -> "lch"
    [] m = "css-oklch" -> "oklch"
    [] OTHER           -> m

\* the transform of toCSS.mode: aliases to the base space
modeTransform(m) ==
  CASE m \in {"css", "css-hsl"} -> "hsl"
    [] m = "css-hsv"            -> "hsv"
    [] m = "css-lch"            -> "lch"
    [] m = "css-oklch"          -> "oklch"
    [] OTHER                    -> m

\* z.enum([...nine spellings]).default('oklch').transform(...)
modeEffect(p) == IF ~p.ok THEN p ELSE Ok(Str(modeTransform(p.v.s)))

Mode(v) ==
  modeEffect(zEnum(zDefault(Str("oklch"), v), ModeNames))

\* const Palette = z.union([Color3, z.array(Color3)])
zUnion(one, many, v) ==
  CASE one.ok  -> one
    [] many.ok -> many
    [] OTHER   -> Fail(IF v.k = "absent" THEN "required" ELSE "invalid_union")

Palette(v) == zUnion(Color3(v), zArray("Color3", v, NoBound), v)

\* the seven shared ramp options
RampBase(f, v) ==
  CASE f = "total" ->
         zNumber(zDefault(N(10), v), TRUE, 3, NoBound)
    [] f = "hStart" -> zOptional(v, Hue(v))
    [] f = "hStartCenter" -> zOptional(v, norm01(v))
    [] f = "hCycles" ->
         zOptional(v, zNumber(zDefault(N(1), v), FALSE, 1, NoBound))
    [] f = "hueList" -> zOptional(v, zArray("hue", v, NoBound))
    [] OTHER -> zOptional(v, RangeTuple(v))       \* sRange, lRange

RampBaseFields ==
  <<"total", "hStart", "hStartCenter", "hCycles", "hueList", "sRange", "lRange">>

\* main: curveMethod enum and curveAccent strength
CurveExtra(f, v) ==
  IF f = "curveMethod"
  THEN zOptional(v, zEnum(v, {"lamé", "sine", "power", "linear"}))
  ELSE zOptional(v, zNumber(v, FALSE, 0, 5))

\* alt: curveAccent is a spelling of the alias table
CurveOpts(f, v) == zOptional(v, zEnum(v, DOMAIN ACCENT_ALIASES))

FormatOpt(f, v) == zOptional(v, Format(v))

\* the declared fields of a tool, in declaration order
Parameters(var, name) ==
  CASE name = "generate" ->
         RampBaseFields \o
         (IF var = "main" THEN <<"curveMethod", "curveAccent">> ELSE <<"curveAccent">>)
         \o <<"format">>
    [] name = "uniqueRandomHues" -> <<"startHue", "total", "minHueDiffAngle">>
    [] name = "colorHarmony"     -> <<"method", "baseHue">>
    [] name = "toCSS"            -> <<"color", "mode">>
    [] name = "harveyHue"        -> <<"h">>
    [] OTHER                     -> <<"fn", "args">>

Members(s) == {s[i] : i \in DOMAIN s}

\* the schema of one declared field applied to a value
FieldSchema(var, name, f, v) ==
  CASE name = "generate" ->
         (CASE f \in Members(RampBaseFields) -> RampBase(f, v)
            [] f = "format"                -> FormatOpt(f, v)
            [] OTHER -> IF var = "main" THEN CurveExtra(f, v) ELSE CurveOpts(f, v))
    [] name = "uniqueRandomHues" ->
         (IF f = "total"
          THEN zOptional(v, zNumber(zDefault(N(5), v), TRUE, 1, NoBound))
          ELSE zOptional(v, Hue(v)))
    [] name = "colorHarmony" ->
         (IF f = "method" THEN zEnum(v, HarmonyMethods) ELSE Hue(v))
    [] name = "toCSS" ->
         (CASE f = "color" -> IF var = "main" THEN Color3(v) ELSE Palette(v)
            [] OTHER       -> IF var = "main" THEN zOptional(v, Mode(v)) ELSE Mode(v))
    [] name = "harveyHue" -> Hue(v)
    [] OTHER ->
         (IF f = "fn" THEN zEnum(v, UtilityNames)
          ELSE zOptional(v, zArray("any", v, NoBound)))

\* z.object(parameters).parse(raw): declared fields are parsed in order, the
\* first issue is reported, keys that are not declared are left out
zField(f, h, t) ==
  CASE ~h.ok -> [ok |-> FALSE, args |-> NoOpts, code |-> h.code, field |-> f]
    [] ~t.ok -> t
    [] OTHER -> [t EXCEPT !.args = [g \in DOMAIN t.args \cup {f} |->
                                      IF g = f THEN h.v ELSE t.args[g]]]

RECURSIVE zObjectFrom(_, _, _, _)
zObjectFrom(var, name, rawArgs, fs) ==
  IF fs = <<>> THEN [ok |-> TRUE, args |-> NoOpts, code |-> "", field |-> ""]
  ELSE zField(Head(fs),
              FieldSchema(var, name, Head(fs), Get(rawArgs, Head(fs))),
              zObjectFrom(var, name, rawArgs, Tail(fs)))

zObject(var, name, rawArgs) ==
  zObjectFrom(var, name, rawArgs, Parameters(var, name))

(* ----------------------------- colour engine --------------------------- *)
\* colorToCSS(color, space): an opaque pure function of both arguments; its
\* answer is written as the space followed by the colour
colorToCSS(c, mode) ==
  Str((IF mode.k = "str" THEN mode.s ELSE "undefined") \o JSONText(c, ""))

Without(obj, drop) == [f \in DOMAIN obj \ drop |-> obj[f]]

With(obj, f, v) == [g \in DOMAIN obj \cup {f} |-> IF g = f THEN v ELSE obj[g]]

\* ramp.map((c) => colorToCSS(c, space)): the calls made, in order
RECURSIVE cssCalls(_, _, _)
cssCalls(a, i, space) ==
  IF i > Len(a) THEN <<>>
  ELSE <<Call("colorToCSS", NoOpts, <<a[i], space>>)>> \o cssCalls(a, i + 1, space)

\* ... and the strings returned, in order
RECURSIVE cssMap(_, _, _)
cssMap(a, i, space) ==
  IF i > Len(a) THEN <<>>
  ELSE <<colorToCSS(a[i], space)>> \o cssMap(a, i + 1, space)

(* ------------------------------- handlers ------------------------------ *)
\* return asResult(out): the engine calls made and the wrapped result
Returned(cs, data) ==
  [calls |-> cs,
   res   |-> [status |-> "ok", data |-> data, envelope |-> asResult(data),
              err |-> NoErr]]

\* a throw: no result and no envelope
Thrown(cs, class, code, field) ==
  [calls |-> cs,
   res   |-> [status |-> "error", data |-> Absent, envelope |-> NoEnvelope,
              err |-> [class |-> class, code |-> code, field |-> field]]]

\* .parse(raw) threw a ZodError
ParseError(parsed) == Thrown(<<>>, "ZodError", parsed.code, parsed.field)

\* format === 'array' ? ramp : ramp.map((c) => colorToCSS(c, ...))
generateOut(c, ramp, space) ==
  IF space = "array"
  THEN Returned(<<c>>, ramp)
  ELSE Returned(<<c>> \o cssCalls(ramp.a, 1, Str(space)),
                Arr(cssMap(ramp.a, 1, Str(space))))

\* curveMethod ? generateColorRampWithCurve({...opts, curveMethod})
\*             : generateColorRamp(opts)
rampCall(selector, opts, key) ==
  IF Truthy(selector)
  THEN Call("generateColorRampWithCurve", With(opts, key, selector), <<>>)
  ELSE Call("generateColorRamp", opts, <<>>)

\* an accent passed on as the caller spelled it
accentOf_raw(curveAccent) == curveAccent

\* const accent = curveAccent ? ACCENT_ALIASES[curveAccent] : undefined
accentOf(curveAccent) ==
  IF Truthy(curveAccent) THEN Str(ACCENT_ALIASES[curveAccent.s]) ELSE Absent

\* const { format = 'array', ... } = parsed; which branch the format takes
spaceOf(format) ==
  CASE format.k = "absent" -> "array"
    [] format.s = "array"   -> "array"
    [] format.s = "css-hsl" -> "hsl"
    [] OTHER                -> "oklch"

\* generate.execute after its own parse; ramp is the engine's answer
generateParsed(var, parsed, ramp) ==
  CASE ~parsed.ok -> ParseError(parsed)
    [] var = "main" ->
         generateOut(rampCall(parsed.args["curveMethod"],
                              Without(parsed.args, {"format", "curveMethod"}),
                              "curveMethod"),
                     ramp, spaceOf(parsed.args["format"]))
    [] OTHER ->
         generateOut(rampCall(accentOf(parsed.args["curveAccent"]),
                              Without(parsed.args, {"format", "curveAccent"}),
                              "curveAccent"),
                     ramp, spaceOf(parsed.args["format"]))

\* generate.execute(raw)
generate_execute(var, rawArgs, ramp) ==
  generateParsed(var, zObject(var, "generate", rawArgs), ramp)

uniqueRandomHuesParsed(parsed, ans) ==
  IF ~parsed.ok THEN ParseError(parsed)
  ELSE Returned(<<Call("uniqueRandomHues", parsed.args, <<>>)>>, ans)

\* uniqueRandomHues.execute(args)
uniqueRandomHues_execute(var, rawArgs, ans) ==
  uniqueRandomHuesParsed(zObject(var, "uniqueRandomHues", rawArgs), ans)

\* colorHarmony.execute({ method, baseHue }): colorHarmonies[method](baseHue)
colorHarmony_execute(var, args, ans) ==
  IF Get(args, "method").k = "str" /\ Get(args, "method").s \in HarmonyMethods
  THEN Returned(<<Call("colorHarmonies", NoOpts,
                       <<Get(args, "method"), Get(args, "baseHue")>>)>>, ans)
  ELSE Thrown(<<>>, "TypeError", "not_a_function", "method")

\* Array.isArray(color[0])
firstIsArray(color) ==
  color.k = "arr" /\ Len(color.a) > 0 /\ color.a[1].k = "arr"

\* toCSS.execute({ color, mode })
toCSS_execute(var, args, ans) ==
  IF var = "alt" /\ firstIsArray(Get(args, "color"))
  THEN Returned(cssCalls(Get(args, "color").a, 1, Get(args, "mode")),
                Arr(cssMap(Get(args, "color").a, 1, Get(args, "mode"))))
  ELSE Returned(<<Call("colorToCSS", NoOpts,
                       <<Get(args, "color"), Get(args, "mode")>>)>>,
                colorToCSS(Get(args, "color"), Get(args, "mode")))

\* harveyHue.execute({ h })
harveyHue_execute(var, args, ans) ==
  Returned(<<Call("harveyHue", NoOpts, <<Get(args, "h")>>)>>, ans)

\* names every object literal inherits from Object.prototype
InheritedNames == {"constructor", "toString"}

\* args.slice(2)
slice2(pos) == IF Len(pos) > 2 THEN SubSeq(pos, 3, Len(pos)) ELSE <<>>

\* map[fn](): the entry of the dispatch table, own or inherited, is called
utilsMap(name, pos, ans) ==
  CASE name = "shuffle"      -> [calls |-> <<Call("shuffleArray", NoOpts, pos)>>,
                                 ok |-> TRUE, data |-> ans]
    [] name = "lerp"         -> [calls |-> <<Call("lerp", NoOpts, pos)>>,
                                 ok |-> TRUE, data |-> ans]
    [] name = "scaleSpread"  -> [calls |-> <<Call("scaleSpreadArray", NoOpts, pos)>>,
                                 ok |-> TRUE, data |-> ans]
    [] name = "curvePoint"   -> [calls |-> <<Call("pointOnCurve", NoOpts, pos),
                                             Call("curve", NoOpts, slice2(pos))>>,
                                 ok |-> TRUE, data |-> ans]
    [] name = "curveEasings" -> [calls |-> <<Call("makeCurveEasings", NoOpts, pos)>>,
                                 ok |-> TRUE, data |-> ans]
    [] name = "constructor"  -> [calls |-> <<>>, ok |-> TRUE, data |-> EmptyObj]
    [] name = "toString"     -> [calls |-> <<>>, ok |-> TRUE,
                                 data |-> Str("[object Object]")]
    [] OTHER                 -> [calls |-> <<>>, ok |-> FALSE, data |-> Absent]

\* if (!map[fn]) throw new Error(...); return asResult(map[fn]())
utilsResult(m) ==
  IF m.ok THEN Returned(m.calls, m.data)
  ELSE Thrown(<<>>, "Error", "utils: unknown fn", "fn")

\* utils.execute({ fn, args = [] })
utils_execute(var, args, ans) ==
  utilsResult(utilsMap(IF Get(args, "fn").k = "str" THEN Get(args, "fn").s ELSE "",
                       IF Get(args, "args").k = "arr" THEN Get(args, "args").a
                       ELSE <<>>,
                       ans))

(* ------------------------------ dispatcher ----------------------------- *)
\* the execute of the tool that was looked up
execute(var, name, args, ans) ==
  CASE name = "generate"         -> generate_execute(var, args, ans)
    [] name = "uniqueRandomHues" -> uniqueRandomHues_execute(var, args, ans)
    [] name = "colorHarmony"     -> colorHarmony_execute(var, args, ans)
    [] name = "toCSS"            -> toCSS_execute(var, args, ans)
    [] name = "harveyHue"        -> harveyHue_execute(var, args, ans)
    [] OTHER                     -> utils_execute(var, args, ans)

\* steps 2 to 4 of dispatch: the validation error, or the handler's outcome
\* on the canonical arguments
validated(var, name, canonical, ans) ==
  IF ~canonical.ok THEN ParseError(canonical)
  ELSE execute(var, name, canonical.args, ans)

\* dispatch(toolName, rawArgs): look the tool up, validate and transform the
\* raw arguments against its parameter schema, then run its handler, to
\* which the engine would answer ans
dispatch(var, name, rawArgs, ans) ==
  IF name \notin ToolNames THEN Thrown(<<>>, "ToolNotFound", "", "")
  ELSE validated(var, name, zObject(var, name, rawArgs), ans)

(* ------------------------------- requests ------------------------------ *)
Half == Unit \div 2

\* the values a caller may supply for a field (valid and invalid ones)
Supplied(var, name, f) ==
  CASE f = "bogus" -> {N(1)}
    [] name = "generate" ->
         (CASE f = "total"        -> {N(2), Num(7 * Half), N(5), Str("5")}
            [] f = "hStart"       -> {N(200), N(400)}
            [] f = "hStartCenter" -> {Num(0 - Unit), Num(Half), N(1), Num(3 * Half),
                                      N(50), N(100), N(101)}
            [] f = "hCycles"      -> {Num(Half), N(2)}
            [] f = "hueList"      -> {Arr(<<N(120), N(160)>>), Arr(<<N(400)>>)}
            [] f = "sRange"       -> {Arr(<<Num((7 * Unit) \div 10), N(1)>>),
                                      Arr(<<N(70), N(100)>>),
                                      Arr(<<Num((9 * Unit) \div 10), N(50)>>),
                                      Arr(<<N(50)>>), Arr(<<N(0), N(101)>>)}
            [] f = "lRange"       -> {Arr(<<N(20), N(40)>>),
                                      Arr(<<Num(Unit \div 5), N(2)>>)}
            [] f = "curveMethod"  -> {Str("sine"), Str("lamé"), Str("bogus")}
            [] f = "curveAccent"  ->
                 IF var = "main" THEN {N(2), N(9)}
                 ELSE {Str(a) : a \in DOMAIN ACCENT_ALIASES \cup {"bogus"}}
            [] OTHER              -> {Str("array"), Str("css"), Str("css-hsl"),
                                      Str("css-oklch"), Str("bogus")})
    [] name = "uniqueRandomHues" ->
         (CASE f = "startHue" -> {N(10), N(400)}
            [] f = "total"    -> {N(0), N(3), Num(5 * Half)}
            [] OTHER          -> {N(30), Num(0 - Unit)})
    [] name = "colorHarmony" ->
         (IF f = "method" THEN {Str("triadic"), Str("complementary"), Str("bogus"), N(1)}
          ELSE {N(0), N(400), Str("0")})
    [] name = "toCSS" ->
         (IF f = "color"
          THEN {Arr(<<N(200), N(50), N(50)>>), Arr(<<N(10), N(20), N(30)>>),
                Arr(<<N(200), N(50)>>), Str("red"),
                Arr(<<Arr(<<N(200), N(50)>>)>>)}
               \cup {Arr(p) : p \in UNION {[1..n -> {Arr(<<N(200), N(50), N(50)>>),
                                                      Arr(<<N(10), N(20), N(30)>>)}]
                                           : n \in 0..MaxPalette}}
          ELSE {Str(m) : m \in ModeNames \cup {"bogus"}})
    [] name = "harveyHue" ->
         {N(0), N(180), N(360), N(400), Num(0 - Unit), Str("180")}
    [] OTHER ->
         (IF f = "fn"
          THEN {Str(u) : u \in UtilityNames \cup InheritedNames \cup {"bogus"}}
          ELSE {Arr([i \in 1..n |-> N(i)]) : n \in 0..MaxArgs} \cup {Str("x")})

\* every assignment of supplied values to the fields of S
RECURSIVE Records(_, _, _)
Records(var, name, fs) ==
  IF fs = <<>> THEN {NoOpts}
  ELSE {With(r, Head(fs), v) : r \in Records(var, name, Tail(fs)),
                               v \in Supplied(var, name, Head(fs))}

\* the subsequences of fs with at most n elements
RECURSIVE Choices(_, _)
Choices(fs, n) ==
  IF fs = <<>> \/ n = 0 THEN {<<>>}
  ELSE Choices(Tail(fs), n) \cup
       {<<Head(fs)>> \o c : c \in Choices(Tail(fs), n - 1)}

\* the raw argument objects of a tool: at most MaxSupplied fields supplied,
\* among them possibly one field the schema does not declare
Inputs(var, name) ==
  UNION {Records(var, name, fs) :
           fs \in Choices(Parameters(var, name) \o <<"bogus">>, MaxSupplied)}

Colors == <<Arr(<<N(200), N(50), N(50)>>), Arr(<<N(10), N(20), N(30)>>),
            Arr(<<N(300), N(80), N(40)>>), Arr(<<N(90), N(10), N(90)>>)>>

\* ramps the engine may answer with
Ramps == {Arr(SubSeq(Colors, 1, n)) : n \in 0..MaxRamp} \cup
         {Arr(<<Colors[2], Colors[1]>>)}

HueLists == {Arr(<<N(0), N(180)>>), Arr(<<N(30), N(150), N(270)>>)}

UtilAnswers == {N(1), Num(Half), Arr(<<N(3), N(1), N(2)>>), Str("ok"), EmptyObj}

NoRes == [status |-> "none", data |-> Absent, envelope |-> NoEnvelope, err |-> NoErr]

(* ------------------------------- registry ------------------------------ *)
\* export const rampensauSpec = { id, instanceId, description, tools: [...] }:
\* built once when the module is loaded
Registry == [id |-> "rampensau", tools |-> ToolNames]

\* a registry that forgets a tool whose dispatch failed
registryAfter_drop(reg, name, r) ==
  IF r.res.status = "error" THEN [reg EXCEPT !.tools = @ \ {name}] ELSE reg

\* the registry after execute has run for tool name with outcome r: no
\* execute, schema or transform assigns to the spec object or to a table
registryAfter(reg, name, r) == reg

Slots == 1..MaxInFlight

IdleSlot ==
  [pc |-> "idle", tool |-> "", raw |-> NoOpts, ans |-> Absent,
   calls |-> <<>>, res |-> NoRes, overlapped |-> FALSE]

(* -------------------------------- actions ------------------------------ *)
Init ==
  /\ variant \in Variants
  /\ pc = "idle"
  /\ tool = ""
  /\ raw = NoOpts
  /\ engine = Absent
  /\ calls = <<>>
  /\ res = NoRes
  /\ registry = Registry
  /\ inflight = [s \in Slots |-> IdleSlot]

\* one request, from arrival to the response being ready; r is what the
\* dispatch left behind and ans what the engine would answer
Respond(name, rawArgs, ans, r) ==
  /\ calls' = r.calls
  /\ res' = r.res
  /\ engine' = IF r.calls = <<>> THEN Absent ELSE ans
  /\ pc' = "done"
  /\ tool' = name
  /\ raw' = rawArgs
  /\ UNCHANGED <<variant, registry, inflight>>

generate ==
  /\ pc = "idle"
  /\ \E rawArgs \in Inputs(variant, "generate"), ramp \in Ramps :
       Respond("generate", rawArgs, ramp,
               dispatch(variant, "generate", rawArgs, ramp))

uniqueRandomHues ==
  /\ pc = "idle"
  /\ \E rawArgs \in Inputs(variant, "uniqueRandomHues"), ans \in HueLists :
       Respond("uniqueRandomHues", rawArgs, ans,
               dispatch(variant, "uniqueRandomHues", rawArgs, ans))

colorHarmony ==
  /\ pc = "idle"
  /\ \E rawArgs \in Inputs(variant, "colorHarmony"), ans \in HueLists :
       Respond("colorHarmony", rawArgs, ans,
               dispatch(variant, "colorHarmony", rawArgs, ans))

toCSS ==
  /\ pc = "idle"
  /\ \E rawArgs \in Inputs(variant, "toCSS") :
       Respond("toCSS", rawArgs, Absent,
               dispatch(variant, "toCSS", rawArgs, Absent))

harveyHue ==
  /\ pc = "idle"
  /\ \E rawArgs \in Inputs(variant, "harveyHue"), ans \in {N(0), N(123)} :
       Respond("harveyHue", rawArgs, ans,
               dispatch(variant, "harveyHue", rawArgs, ans))

utils ==
  /\ pc = "idle"
  /\ \E rawArgs \in Inputs(variant, "utils"), ans \in UtilAnswers :
       Respond("utils", rawArgs, ans,
               dispatch(variant, "utils", rawArgs, ans))

\* a request that names no registered tool
unknownTool ==
  /\ pc = "idle"
  /\ \E name \in {"bogus", "Generate"}, rawArgs \in Inputs(variant, "harveyHue") :
       Respond(name, rawArgs, Absent,
               dispatch(variant, name, rawArgs, Absent))

\* the response is handed to the caller; nothing of the request is kept
deliver ==
  /\ pc = "done"
  /\ pc' = "idle"
  /\ tool' = ""
  /\ raw' = NoOpts
  /\ engine' = Absent
  /\ calls' = <<>>
  /\ res' = NoRes
  /\ UNCHANGED <<variant, registry, inflight>>

Next ==
  \/ generate
  \/ uniqueRandomHues
  \/ colorHarmony
  \/ toCSS
  \/ harveyHue
  \/ utils
  \/ unknownTool
  \/ deliver

Spec == Init /\ [][Next]_vars

(* ------------------------ dispatches under way at once ----------------- *)
\* requests that overlapping callers send: per tool one that succeeds and
\* one that fails, and one that names no tool
Request(name, rawArgs, ans) == [tool |-> name, raw |-> rawArgs, ans |-> ans]

Samples ==
  {Request("harveyHue", [h |-> N(180)], N(123)),
   Request("harveyHue", [h |-> N(400)], N(123)),
   Request("generate", [format |-> Str("css")], Arr(<<Colors[1]>>)),
   Request("generate", [format |-> Str("bogus")], Arr(<<Colors[1]>>)),
   Request("toCSS", [color |-> Colors[1], mode |-> Str("css")], Absent),
   Request("utils", [fn |-> Str("lerp"), args |-> Arr(<<N(1), N(2), N(3)>>)], N(1)),
   Request("utils", [fn |-> Str("bogus")], N(1)),
   Request("bogus", NoOpts, Absent)}

\* another dispatch has already failed and its error is not yet handed over
FailureBefore(s) ==
  \E o \in Slots \ {s} :
    inflight[o].pc = "done" /\ inflight[o].res.status = "error"

Single == <<variant, pc, tool, raw, engine, calls, res>>

\* a request arrives at a free slot
arrive(s) ==
  /\ inflight[s].pc = "idle"
  /\ \E q \in Samples :
       inflight' = [inflight EXCEPT ![s] =
                      [IdleSlot EXCEPT !.pc = "arrived", !.tool = q.tool,
                                       !.raw = q.raw, !.ans = q.ans]]
  /\ UNCHANGED <<registry, Single>>

\* step 1 of dispatch: the tool is looked up in the registry
lookup(s) ==
  /\ inflight[s].pc = "arrived"
  /\ inflight' = [inflight EXCEPT ![s] =
       IF inflight[s].tool \in registry.tools
       THEN [@ EXCEPT !.pc = "found", !.overlapped = FailureBefore(s)]
       ELSE [@ EXCEPT !.pc = "done", !.overlapped = FailureBefore(s),
                      !.calls = <<>>,
                      !.res = Thrown(<<>>, "ToolNotFound", "", "").res]]
  /\ UNCHANGED <<registry, Single>>

\* what steps 2 to 4 leave behind for the request in slot s
outcome(s) ==
  validated(variant, inflight[s].tool,
            zObject(variant, inflight[s].tool, inflight[s].raw),
            inflight[s].ans)

\* steps 2 to 4 of dispatch: validation and the tool's execute, which has no
\* await and so runs to its end without another dispatch in between
run(s) ==
  /\ inflight[s].pc = "found"
  /\ inflight' = [inflight EXCEPT ![s] =
       [@ EXCEPT !.pc = "done", !.calls = outcome(s).calls,
                 !.res = outcome(s).res]]
  /\ registry' = registryAfter(registry, inflight[s].tool, outcome(s))
  /\ UNCHANGED Single

\* the result or the error is handed to the caller
reply(s) ==
  /\ inflight[s].pc = "done"
  /\ inflight' = [inflight EXCEPT ![s] = IdleSlot]
  /\ UNCHANGED <<registry, Single>>

NextOverlapped ==
  \E s \in Slots : arrive(s) \/ lookup(s) \/ run(s) \/ reply(s)

SpecOverlapped == Init /\ [][NextOverlapped]_vars

(* ======================================================================= *)
(*                               properties                                *)
(* ======================================================================= *)
Done   == pc = "done"
Failed == res.status = "error" /\ res.envelope = NoEnvelope
Has(f) == f \in DOMAIN raw

IsNum(v)           == v.k = "num"
InRange(v, lo, hi) == IsNum(v) /\ lo * Unit <= v.n /\ v.n <= hi * Unit
IsInt(v)           == IsNum(v) /\ v.n % Unit = 0
AllInRange(v, lo, hi) ==
  v.k = "arr" /\ \A i \in 1..Len(v.a) : InRange(v.a[i], lo, hi)
IsTuple3(v) ==
  v.k = "arr" /\ Len(v.a) = 3 /\ \A i \in 1..3 : IsNum(v.a[i])
AllTuples(v) ==
  v.k = "arr" /\ \A i \in 1..Len(v.a) : IsTuple3(v.a[i])
IsFractionPair(v) == AllInRange(v, 0, 100) /\ Len(v.a) = 2

\* the raw arguments break the declared schema of the tool: a required field
\* is missing, a value has the wrong type, or a number is out of its bound
Violates ==
  CASE tool = "harveyHue" -> ~InRange(Get(raw, "h"), 0, 360)
    [] tool = "colorHarmony" ->
         \/ ~(Get(raw, "method").k = "str" /\ Get(raw, "method").s \in HarmonyMethods)
         \/ ~InRange(Get(raw, "baseHue"), 0, 360)
    [] tool = "toCSS" ->
         \/ (variant = "main" /\ ~IsTuple3(Get(raw, "color")))
         \/ (variant = "alt" /\ ~IsTuple3(Get(raw, "color"))
                             /\ ~AllTuples(Get(raw, "color")))
         \/ (Has("mode") /\ ~(raw["mode"].k = "str" /\ raw["mode"].s \in ModeNames))
    [] tool = "utils" ->
         \/ ~(Get(raw, "fn").k = "str" /\ Get(raw, "fn").s \in UtilityNames)
         \/ (Has("args") /\ raw["args"].k # "arr")
    [] tool = "uniqueRandomHues" ->
         \/ (Has("startHue") /\ ~InRange(raw["startHue"], 0, 360))
         \/ (Has("total") /\ ~(IsInt(raw["total"]) /\ raw["total"].n >= Unit))
         \/ (Has("minHueDiffAngle") /\ ~InRange(raw["minHueDiffAngle"], 0, 360))
    [] OTHER ->
         \/ (Has("total") /\ ~(IsInt(raw["total"]) /\ raw["total"].n >= 3 * Unit))
         \/ (Has("hStart") /\ ~InRange(raw["hStart"], 0, 360))
         \/ (Has("hStartCenter") /\ ~InRange(raw["hStartCenter"], 0, 100))
         \/ (Has("hCycles") /\ ~(IsNum(raw["hCycles"]) /\ raw["hCycles"].n >= Unit))
         \/ (Has("hueList") /\ ~AllInRange(raw["hueList"], 0, 360))
         \/ (Has("sRange") /\ ~IsFractionPair(raw["sRange"]))
         \/ (Has("lRange") /\ ~IsFractionPair(raw["lRange"]))
         \/ (Has("curveMethod") /\
               ~(variant = "main" /\ raw["curveMethod"].k = "str" /\
                 raw["curveMethod"].s \in {"lamé", "sine", "power", "linear"}))
         \/ (Has("curveAccent") /\ variant = "main" /\ ~InRange(raw["curveAccent"], 0, 5))
         \/ (Has("curveAccent") /\ variant = "alt" /\
               ~(raw["curveAccent"].k = "str" /\
                 raw["curveAccent"].s \in DOMAIN ACCENT_ALIASES))
         \/ (Has("format") /\
               ~(raw["format"].k = "str" /\
                 raw["format"].s \in {"array", "css-hsl", "css-oklch", "css"}))

\* C1: a request to any of the six tools whose raw arguments violate the
\* tool's declared parameter schema ends in an error, and the colour engine
\* is not called for it
C1_SchemaViolationFails ==
  (Done /\ tool \in ToolNames /\ Violates) => (Failed /\ calls = <<>>)

\* harveyHue was asked for h = 400 and the request failed
C1_Witness ==
  /\ Done /\ tool = "harveyHue"
  /\ Has("h") /\ raw["h"] = N(400)
  /\ Failed /\ res.err.code = "too_big" /\ calls = <<>>

\* the request is valid once hStartCenter is left out
OthersValid == zObject(variant, tool, Without(raw, {"hStartCenter"})).ok

\* C2: norm01 accepts exactly the numbers 0 <= v <= 100; an accepted v reaches
\* the engine as v when v <= 1 and as v/100 when v > 1, which lies in [0,1];
\* any other number is rejected with a validation error
C2_NormalizeFraction ==
  (Done /\ tool = "generate" /\ Has("hStartCenter") /\ IsNum(raw["hStartCenter"])
        /\ OthersValid)
  => LET v == raw["hStartCenter"].n IN
     IF 0 <= v /\ v <= 100 * Unit
     THEN /\ res.status = "ok"
          /\ LET out == calls[1].opts["hStartCenter"] IN
               /\ IsNum(out)
               /\ 0 <= out.n /\ out.n <= Unit
               /\ v <= Unit => out.n = v
               /\ v > Unit => out.n * 100 = v
     ELSE /\ Failed /\ calls = <<>>
          /\ res.err.class = "ZodError" /\ res.err.field = "hStartCenter"

\* a percentage was normalized: 50 reached the engine as 0.5
C2_Witness ==
  /\ Done /\ tool = "generate" /\ res.status = "ok"
  /\ Has("hStartCenter") /\ raw["hStartCenter"] = N(50)
  /\ calls[1].opts["hStartCenter"] = Num(Half)

\* C3: utils fails with the UnknownUtility error for every fn that is not one
\* of the five utility names, calls no engine primitive and returns no envelope
C3_UnknownFnIsUnknownUtility ==
  (Done /\ tool = "utils" /\ Has("fn") /\ raw["fn"].k = "str"
        /\ raw["fn"].s \notin UtilityNames)
  => (Failed /\ calls = <<>> /\ res.err.class = "Error"
             /\ res.err.code = "utils: unknown fn")

BaseSpace(m) ==
  CASE m \in {"css", "css-hsl", "hsl"} -> "hsl"
    [] m \in {"css-hsv", "hsv"}        -> "hsv"
    [] m \in {"css-lch", "lch"}        -> "lch"
    [] OTHER                           -> "oklch"

\* C5: every accepted mode spelling of toCSS reaches colorToCSS as its base
\* space (hsl, hsv, lch, oklch); so mode css returns the text of mode hsl
C5_ModeAliases ==
  (Done /\ tool = "toCSS" /\ res.status = "ok" /\ Has("mode"))
  => /\ calls # <<>>
     /\ \A i \in 1..Len(calls) :
          /\ calls[i].fn = "colorToCSS"
          /\ calls[i].pos[2] = Str(BaseSpace(raw["mode"].s))
          /\ calls[i].pos[2].s \in {"hsl", "hsv", "lch", "oklch"}
     /\ (raw["mode"].s \in {"css", "hsl"} /\ IsTuple3(raw["color"]))
          => res.envelope.content[1].text = colorToCSS(raw["color"], Str("hsl"))

\* toCSS was asked for mode css and the engine was asked for hsl
C5_Witness ==
  /\ Done /\ tool = "toCSS" /\ res.status = "ok"
  /\ Has("mode") /\ raw["mode"] = Str("css")
  /\ calls[1].pos[2] = Str("hsl")

\* C6: a parameter whose descriptor declares a default reaches the engine
\* with that default when the caller omits it: generate total 10, hCycles 1,
\* format array; uniqueRandomHues total 5; toCSS mode oklch
C6_DefaultsReachEngine ==
  (Done /\ res.status = "ok" /\ tool \in {"generate", "uniqueRandomHues", "toCSS"})
  => CASE tool = "generate" ->
            /\ ~Has("total") => calls[1].opts["total"] = N(10)
            /\ ~Has("hCycles") => calls[1].opts["hCycles"] = N(1)
            /\ ~Has("format") => res.data = engine
       [] tool = "uniqueRandomHues" ->
            ~Has("total") => calls[1].opts["total"] = N(5)
       [] OTHER ->
            ~Has("mode") => \A i \in 1..Len(calls) : calls[i].pos[2] = Str("oklch")

\* C7: every successful call returns an envelope of exactly one item of type
\* text, whose text is the handler result itself when it is a string and its
\* JSON text with 2-space indentation otherwise; a failed call returns none
C7_Envelope ==
  (Done /\ tool \in ToolNames)
  => IF res.status = "ok"
     THEN /\ Len(res.envelope.content) = 1
          /\ res.envelope.content[1].type = "text"
          /\ res.envelope.content[1].text =
               (IF res.data.k = "str" THEN res.data ELSE Str(JSONText(res.data, "")))
          /\ res.data = N(123) => res.envelope.content[1].text.s = "123"
          /\ res.data = Num(Half) => res.envelope.content[1].text.s = "0.5"
          /\ res.data = Arr(<<>>) => res.envelope.content[1].text.s = "[]"
          /\ res.data = Arr(<<N(0), N(180)>>)
               => res.envelope.content[1].text.s = "[\n  0,\n  180\n]"
          /\ res.data = Arr(<<Colors[1]>>)
               => res.envelope.content[1].text.s
                    = "[\n  [\n    200,\n    50,\n    50\n  ]\n]"
          /\ res.data = Arr(<<Str("a"), Str("b")>>)
               => res.envelope.content[1].text.s = "[\n  \"a\",\n  \"b\"\n]"
     ELSE res.envelope = NoEnvelope

\* colorHarmony answered [0, 180] and the envelope carries its indented JSON
C7_Witness ==
  /\ Done /\ tool = "colorHarmony" /\ res.status = "ok"
  /\ res.data = Arr(<<N(0), N(180)>>)
  /\ res.envelope.content = << [type |-> "text", text |-> Str("[\n  0,\n  180\n]")] >>

ModeOk == ~Has("mode") \/ (raw["mode"].k = "str" /\ raw["mode"].s \in ModeNames)

\* C8: toCSS mirrors the shape of color: one tuple gives one string by one
\* colorToCSS call; a sequence of tuples of any length, zero included, gives
\* the sequence of their conversions, in order
C8_ShapeMirrored ==
  (Done /\ tool = "toCSS" /\ Has("color") /\ ModeOk)
  => /\ IsTuple3(raw["color"])
          => (res.status = "ok" /\ res.data.k = "str" /\ Len(calls) = 1)
     /\ AllTuples(raw["color"])
          => /\ res.status = "ok" /\ res.data.k = "arr"
             /\ Len(res.data.a) = Len(raw["color"].a)
             /\ Len(calls) = Len(raw["color"].a)
             /\ \A i \in 1..Len(raw["color"].a) :
                  /\ calls[i].pos[1] = raw["color"].a[i]
                  /\ res.data.a[i] = colorToCSS(raw["color"].a[i], calls[i].pos[2])

\* the payload is the ramp converted tuple by tuple to the given space
RampAsCss(space) ==
  /\ res.data.k = "arr"
  /\ Len(res.data.a) = Len(engine.a)
  /\ Len(calls) = 1 + Len(engine.a)
  /\ \A i \in 1..Len(engine.a) :
       /\ res.data.a[i] = colorToCSS(engine.a[i], Str(space))
       /\ calls[i + 1] = Call("colorToCSS", NoOpts, <<engine.a[i], Str(space)>>)

\* C9: generate with format array (or none) returns the engine's ramp
\* unchanged without calling colorToCSS; css-hsl and css return colorToCSS(c,
\* hsl) for each c of the ramp, css-oklch colorToCSS(c, oklch), same length
\* and order; any other format is rejected
C9_GenerateFormat ==
  (Done /\ tool = "generate")
  => /\ (res.status = "ok" /\ Get(raw, "format") \in {Absent, Str("array")})
          => (res.data = engine /\ Len(calls) = 1)
     /\ (res.status = "ok" /\ Get(raw, "format") \in {Str("css"), Str("css-hsl")})
          => RampAsCss("hsl")
     /\ (res.status = "ok" /\ Get(raw, "format") = Str("css-oklch"))
          => RampAsCss("oklch")
     /\ (Has("format") /\ raw["format"] \notin {Str("array"), Str("css"),
                                                 Str("css-hsl"), Str("css-oklch")})
          => (Failed /\ calls = <<>>)

\* format css on a ramp of two colours gave their two hsl strings, in order
C9_Witness ==
  /\ Done /\ tool = "generate" /\ res.status = "ok"
  /\ Has("format") /\ raw["format"] = Str("css")
  /\ engine = Arr(<<Colors[2], Colors[1]>>)
  /\ res.data = Arr(<<colorToCSS(Colors[2], Str("hsl")),
                      colorToCSS(Colors[1], Str("hsl"))>>)

Generators == {"generateColorRamp", "generateColorRampWithCurve"}

\* the field that selects the curve, and the canonical name of a spelling
Selector == IF variant = "main" THEN "curveMethod" ELSE "curveAccent"

Canonical(a) ==
  CASE variant = "main"                            -> a
    [] a \in {"lamé", "lame"}                      -> "lamé"
    [] a \in {"arc", "linear", "sine", "easeInOut"} -> "arc"
    [] a \in {"pow", "power"}                      -> "pow"
    [] a \in {"powx", "powX"}                      -> "powX"
    [] OTHER                                       -> "powY"

\* C10: a valid generate request calls exactly one ramp generator: the
\* curve-aware one, with the alias-resolved selector, when the caller gave a
\* curve selector, and the plain one when it gave none
C10_OneGenerator ==
  (Done /\ tool = "generate" /\ res.status = "ok")
  => /\ Cardinality({i \in 1..Len(calls) : calls[i].fn \in Generators}) = 1
     /\ calls[1].fn \in Generators
     /\ Has(Selector)
          => /\ calls[1].fn = "generateColorRampWithCurve"
             /\ calls[1].opts[Selector] = Str(Canonical(raw[Selector].s))
     /\ ~Has(Selector) => calls[1].fn = "generateColorRamp"

\* the accent easeInOut reached the curve-aware generator as arc
C10_Witness ==
  /\ Done /\ tool = "generate" /\ res.status = "ok" /\ variant = "alt"
  /\ Has("curveAccent") /\ raw["curveAccent"] = Str("easeInOut")
  /\ calls[1].fn = "generateColorRampWithCurve"
  /\ calls[1].opts["curveAccent"] = Str("arc")

\* the positional arguments of a utils request (args = [] when left out)
Positional == IF Has("args") THEN raw["args"].a ELSE <<>>

\* the first two positional arguments, or fewer when fewer were given
FirstTwo(pos) == SubSeq(pos, 1, IF Len(pos) < 2 THEN Len(pos) ELSE 2)

\* C11: for utils curvePoint the curve builder receives the first two
\* positional arguments only, and the curve it returns is called with the
\* arguments from the third onward
C11_CurvePointCurried ==
  (Done /\ tool = "utils" /\ res.status = "ok"
        /\ Has("fn") /\ raw["fn"] = Str("curvePoint"))
  => /\ Len(calls) = 2
     /\ calls[1] = Call("pointOnCurve", NoOpts, FirstTwo(Positional))
     /\ calls[2] = Call("curve", NoOpts, slice2(Positional))

Registered ==
  {"generate", "toCSS", "colorHarmony", "uniqueRandomHues", "harveyHue", "utils"}

\* C13: a dispatch that names none of the six registered tools ends in a
\* ToolNotFound error; no handler runs and the colour engine is not called
C13_UnknownToolNotFound ==
  (Done /\ tool \notin Registered)
  => /\ Failed /\ res.err.class = "ToolNotFound"
     /\ calls = <<>> /\ engine = Absent

\* the name Generate, which differs from a registered one only in case, was
\* refused although its arguments would suit a tool
C13_Witness ==
  /\ Done /\ tool = "Generate" /\ raw = [h |-> N(180)]
  /\ Failed /\ res.err.class = "ToolNotFound" /\ calls = <<>>

\* the options the ramp generator was called with
RampOpts == calls[1].opts

\* C14: every field transform is idempotent and total on what it accepts:
\* its output is accepted again and comes back unchanged. norm01 (alone and
\* in a range), the format alias, the mode alias and the accent alias table
C14_TransformsIdempotent ==
  (Done /\ res.status = "ok")
  => /\ (tool = "generate" /\ Has("hStartCenter"))
          => norm01(RampOpts["hStartCenter"]) = Ok(RampOpts["hStartCenter"])
     /\ \A f \in {"sRange", "lRange"} :
          (tool = "generate" /\ Has(f))
          => RangeTuple(RampOpts[f]) = Ok(RampOpts[f])
     /\ tool = "generate"
          => /\ Format(Get(raw, "format")).ok
             /\ Format(Format(Get(raw, "format")).v) = Format(Get(raw, "format"))
     /\ (tool = "generate" /\ variant = "alt" /\ Has("curveAccent"))
          => /\ zEnum(RampOpts["curveAccent"], DOMAIN ACCENT_ALIASES).ok
             /\ accentOf(RampOpts["curveAccent"]) = RampOpts["curveAccent"]
             /\ RampOpts["curveAccent"].s \in {"lamé", "arc", "pow", "powX", "powY"}
     /\ (tool = "toCSS" /\ Has("mode"))
          => \A i \in 1..Len(calls) : Mode(calls[i].pos[2]) = Ok(calls[i].pos[2])

\* the percentages [70, 100] reached the engine as [0.7, 1], a range that
\* is accepted again as it is
C14_Witness ==
  /\ Done /\ tool = "generate" /\ res.status = "ok"
  /\ Has("sRange") /\ raw["sRange"] = Arr(<<N(70), N(100)>>)
  /\ RampOpts["sRange"] = Arr(<<Num((7 * Unit) \div 10), N(1)>>)
  /\ RangeTuple(RampOpts["sRange"]) = Ok(RampOpts["sRange"])

\* C15: normalizing a range keeps the order of its two elements: a pair
\* [a, b] with a <= b that is accepted reaches the engine as [a', b'] with
\* a' <= b', also when one element is a fraction and the other a percentage
C15_RangeOrderKept ==
  \A f \in {"sRange", "lRange"} :
    (Done /\ tool = "generate" /\ res.status = "ok" /\ Has(f)
          /\ raw[f].a[1].n <= raw[f].a[2].n)
    => RampOpts[f].a[1].n <= RampOpts[f].a[2].n
====
